---- MODULE Spec2Model ----
(***************************************************************************)
(* Risk scoring engine of the cholera/flooding surveillance backend        *)
(* (backend/app/services/risk_calculator.py) together with the tables it   *)
(* reads and the risk_scores table it writes.                              *)
(*                                                                         *)
(* Arithmetic.  Python floats are modelled as exact rationals in fixed     *)
(* point: a score x is the integer x * Scale.  Scale is chosen so that     *)
(* every quotient and product the calculator forms is an integer when the  *)
(* raw inputs lie on the grids used here (ndwi in hundredths, percentages  *)
(* and millimetres as integers).  Binary rounding of IEEE doubles is not   *)
(* represented.                                                            *)
(***************************************************************************)
EXTENDS Integers, Sequences, FiniteSets, TLC

\* ----------------------------------------------------------------- bounds
MaxEdits == 2
MaxCalls == 2

\* -------------------------------------------------------- representation
\* Python None / SQL NULL
NULL == -9999
\* fixed-point denominator: lcm of all denominators formed by the calculator
Scale == 3900 * 500

\* RiskCalculator class constants (weights in tenths)
W_RAIN == 2
\* variant: the flood score weighted like the rainfall score
W_FLOOD_as_rain == W_RAIN
W_FLOOD == 4
W_CASES == 3
W_VULNERABILITY == 1
MAX_RAINFALL_MM == 200
MAX_RECENT_CASES == 50

Max2(a, b) == IF a >= b THEN a ELSE b
Min2(a, b) == IF a <= b THEN a ELSE b

\* x * (num/den) on fixed-point values
MulFrac(x, num, den) == (x * num) \div den

\* ------------------------------------------------------- pure functions
\* variant: the quotient is returned without the clamp to [0, 1]
normalize_unclamped(value, min_val, max_val) ==
    IF value = NULL THEN 0
    ELSE IF max_val = min_val THEN 0
    ELSE ((value - min_val) * Scale) \div (max_val - min_val)

\* min_val, max_val and value in the same raw unit; the result is fixed-point
normalize(value, min_val, max_val) ==
    IF value = NULL THEN 0
    ELSE IF max_val = min_val THEN 0
    ELSE LET normalized == ((value - min_val) * Scale) \div (max_val - min_val)
         IN  Max2(0, Min2(Scale, normalized))

\* variant: the flood score is rounded to three decimals before it is used
calculate_flood_score_round3(ndwi, flood_extent_pct) ==
    IF ndwi = NULL /\ flood_extent_pct = NULL THEN 0
    ELSE LET s1 == IF ndwi # NULL
                   THEN MulFrac(normalize(ndwi, -50, 80), 6, 10) ELSE 0
             s2 == IF flood_extent_pct # NULL
                   THEN MulFrac(normalize(flood_extent_pct, 0, 30), 4, 10) ELSE 0
             unit == Scale \div 1000
         IN  ((Min2(Scale, s1 + s2) + unit \div 2) \div unit) * unit

\* variant: an absent input hands its weight to the input that is present
calculate_flood_score_renormalized(ndwi, flood_extent_pct) ==
    IF ndwi = NULL /\ flood_extent_pct = NULL THEN 0
    ELSE IF ndwi = NULL THEN normalize(flood_extent_pct, 0, 30)
    ELSE IF flood_extent_pct = NULL THEN normalize(ndwi, -50, 80)
    ELSE Min2(Scale, MulFrac(normalize(ndwi, -50, 80), 6, 10)
                     + MulFrac(normalize(flood_extent_pct, 0, 30), 4, 10))

\* ndwi in hundredths: reference range -0.5 .. 0.8
calculate_flood_score(ndwi, flood_extent_pct) ==
    IF ndwi = NULL /\ flood_extent_pct = NULL THEN 0
    ELSE LET s1 == IF ndwi # NULL
                   THEN MulFrac(normalize(ndwi, -50, 80), 6, 10) ELSE 0
             s2 == IF flood_extent_pct # NULL
                   THEN MulFrac(normalize(flood_extent_pct, 0, 30), 4, 10) ELSE 0
         IN  Min2(Scale, s1 + s2)

calculate_rainfall_score(rainfall_7day_mm, rainfall_30day_mm) ==
    IF rainfall_7day_mm = NULL THEN 0
    ELSE LET score == normalize(rainfall_7day_mm, 0, MAX_RAINFALL_MM)
         IN  IF rainfall_30day_mm # NULL
             THEN MulFrac(score, 7, 10)
                  + MulFrac(normalize(rainfall_30day_mm, 0, 500), 3, 10)
             ELSE score

\* variant: the fatality rate is compared with >=
calculate_case_score_ge(recent_cases, recent_deaths) ==
    LET case_score == normalize(recent_cases, 0, MAX_RECENT_CASES)
    IN  IF recent_deaths > 0 /\ recent_cases > 0
           /\ recent_deaths * 100 >= 5 * recent_cases
        THEN Min2(Scale, MulFrac(case_score, 13, 10))
        ELSE case_score

\* cfr > 0.05  <=>  deaths * 100 > 5 * cases   (cases > 0)
calculate_case_score(recent_cases, recent_deaths) ==
    LET case_score == normalize(recent_cases, 0, MAX_RECENT_CASES)
    IN  IF recent_deaths > 0 /\ recent_cases > 0
           /\ recent_deaths * 100 > 5 * recent_cases
        THEN Min2(Scale, MulFrac(case_score, 13, 10))
        ELSE case_score

\* Python "x or 50": None and 0 are both falsy
OrDefault(x, d) == IF x = NULL \/ x = 0 THEN d ELSE x

calculate_vulnerability_score(lga) ==
    LET water == OrDefault(lga.water_coverage_pct, 50)
        sanitation == OrDefault(lga.sanitation_coverage_pct, 50)
        water_vuln == Scale - (water * Scale) \div 100
        sanitation_vuln == Scale - (sanitation * Scale) \div 100
    IN  MulFrac(water_vuln, 5, 10) + MulFrac(sanitation_vuln, 5, 10)

\* variant: thresholds compared with <=
get_level_from_score_le(score) ==
    IF score * 10 <= 3 * Scale THEN "green"
    ELSE IF score * 10 <= 6 * Scale THEN "yellow"
    ELSE "red"

get_level_from_score(score) ==
    IF score * 10 < 3 * Scale THEN "green"
    ELSE IF score * 10 < 6 * Scale THEN "yellow"
    ELSE "red"

\* round(x, 4): nearest multiple of 1/10000, ties to even
Round4Unit == Scale \div 10000

\* variant: digits beyond the fourth are cut off
round4_trunc(x) == (x \div Round4Unit) * Round4Unit

round4(x) ==
    LET q == x \div Round4Unit
        r == x % Round4Unit
    IN  IF 2 * r > Round4Unit \/ (2 * r = Round4Unit /\ q % 2 = 1)
        THEN (q + 1) * Round4Unit
        ELSE q * Round4Unit

\* ---------------------------------------------------------------- state
VARIABLES
    lgas,           \* table lgas: set of rows, unique id
    env_data,       \* table environmental_data, in insertion order
    case_reports,   \* table case_reports, in insertion order
    risk_scores,    \* table risk_scores, in insertion order (row id = position)
    today,          \* date.today(), days since an epoch
    edits,          \* collaborator writes so far
    calls,          \* calculator invocations so far (also the utcnow clock)
    call,           \* the most recent operation and its arguments
    raised,         \* exception that left the most recent call, or "none"
    result,         \* dict returned by the most recent calculate_for_lga
    results,        \* list returned by the most recent calculate_all
    repeat,         \* the two most recent operations were the same successful
                    \* calculate_for_lga(lga_id, score_date)
    probe,          \* a pure function under test: its argument and its value
    sess,           \* per database session: where its calculate_for_lga stands
    commit_log,     \* sessions in the order their commits succeeded
    alerts,         \* table alerts: alert id -> row
    reqs,           \* per API client: where its alert request stands
    responses,      \* alert requests answered so far, in order
    import_result   \* dict returned by the most recent import_case_data

vars == <<lgas, env_data, case_reports, risk_scores, today, edits, calls,
          call, raised, result, results, repeat, probe, sess, commit_log,
          alerts, reqs, responses, import_result>>

\* Python None where a row or a dict is expected
None_ == [is_none |-> TRUE]

\* the alerts table without rows
NoAlerts == <<>>

\* two API clients whose requests may overlap
Clients == {"c1", "c2"}

\* a client with no request in progress
IdleRequest ==
    [pc |-> "idle", op |-> "none", alert_id |-> NULL, user_id |-> NULL,
     loaded |-> None_]

\* the scheduled job and a manually triggered recalculation
Sessions == {"scheduled", "manual"}

IdleSession ==
    [pc |-> "idle", lga_id |-> NULL, score_date |-> NULL, lga |-> None_,
     vals |-> None_, existing |-> 0, loaded |-> None_, raised |-> "none",
     result |-> None_]

\* ids a caller may pass; 3 never names a region
CallIds == {1, 2, 3}
Today0 == 20
\* explicit score_date arguments; NULL stands for the default (today)
ScoreDates == {NULL, 19}

\* collaborator writes: (region, (water_coverage_pct, sanitation_coverage_pct))
LgaEdits == { <<1, <<NULL, NULL>>>>, <<1, <<0, 100>>>>, <<2, <<40, 35>>>> }

\* (region, (observation_date, ndwi in hundredths, flood_extent_pct,
\*           rainfall_7day_mm, rainfall_30day_mm))
EnvEdits ==
    { <<1, <<10, 60, 20, 150, 400>>>>,
      <<1, <<20, 150, 45, 250, 600>>>>,
      <<1, <<20, NULL, NULL, NULL, NULL>>>>,
      <<2, <<15, -100, -5, -10, NULL>>>>,
      <<2, <<12, -39, 8, 187, NULL>>>> }

\* (region, (report_date, new_cases, deaths))
CaseEdits ==
    { <<1, <<20, 40, 3>>>>, <<1, <<0, 20, 1>>>>,
      <<2, <<25, 7, 0>>>>, <<2, <<20, 60, 3>>>> }

LgaRow(id, cov) ==
    [id |-> id, name |-> id, water_coverage_pct |-> cov[1],
     sanitation_coverage_pct |-> cov[2]]

EnvRow(lga_id, e) ==
    [lga_id |-> lga_id, observation_date |-> e[1], ndwi |-> e[2],
     flood_extent_pct |-> e[3], rainfall_7day_mm |-> e[4],
     rainfall_30day_mm |-> e[5]]

CaseRow(lga_id, c) ==
    [lga_id |-> lga_id, report_date |-> c[1], new_cases |-> c[2],
     deaths |-> c[3]]

\* ---------------------------------------------------------------- queries
\* db.query(LGA).filter(LGA.id == lga_id).first()
get_lga(lga_id) ==
    IF \E l \in lgas : l.id = lga_id
    THEN CHOOSE l \in lgas : l.id = lga_id
    ELSE None_

RECURSIVE SumField(_, _, _)
SumField(rows, idx, field) ==
    IF idx = {} THEN 0
    ELSE LET i == CHOOSE j \in idx : TRUE
         IN  rows[i][field] + SumField(rows, idx \ {i}, field)

\* func.sum over no rows is NULL, and "or 0" turns it into 0
get_recent_cases(lga_id) ==
    LET start_date == today - 14
        idx == {i \in DOMAIN case_reports :
                   /\ case_reports[i].lga_id = lga_id
                   /\ case_reports[i].report_date >= start_date}
    IN  [cases |-> SumField(case_reports, idx, "new_cases"),
         deaths |-> SumField(case_reports, idx, "deaths")]

\* variant: ORDER BY observation_date ASC
get_earliest_environmental(lga_id) ==
    LET idx == {i \in DOMAIN env_data : env_data[i].lga_id = lga_id}
        top == {i \in idx : \A j \in idx :
                   env_data[j].observation_date >= env_data[i].observation_date}
    IN  IF idx = {} THEN None_ ELSE env_data[CHOOSE i \in top : TRUE]

\* ORDER BY observation_date DESC ... first(); rows sharing the greatest
\* date are not ordered by the query: the pick is fixed but unspecified
get_latest_environmental(lga_id) ==
    LET idx == {i \in DOMAIN env_data : env_data[i].lga_id = lga_id}
        top == {i \in idx : \A j \in idx :
                   env_data[j].observation_date <= env_data[i].observation_date}
    IN  IF idx = {} THEN None_ ELSE env_data[CHOOSE i \in top : TRUE]

\* ------------------------------------------------------- calculate_for_lga
\* the columns calculate_for_lga assigns on an existing row
ScoreFields ==
    {"score", "level", "flood_score", "rainfall_score", "case_score",
     "vulnerability_score", "rainfall_mm", "ndwi", "recent_cases",
     "recent_deaths"}

\* variant: all four components are computed only under "if env_data"
ScoreValues_envgate(lga, env_data_row, case_data) ==
    LET has_env == env_data_row # None_
        flood_score ==
            IF has_env
            THEN calculate_flood_score(env_data_row.ndwi,
                                       env_data_row.flood_extent_pct)
            ELSE 0
        rainfall_score ==
            IF has_env
            THEN calculate_rainfall_score(env_data_row.rainfall_7day_mm,
                                          env_data_row.rainfall_30day_mm)
            ELSE 0
        case_score ==
            IF has_env
            THEN calculate_case_score(case_data.cases, case_data.deaths)
            ELSE 0
        vulnerability_score ==
            IF has_env THEN calculate_vulnerability_score(lga) ELSE 0
        total_score == MulFrac(flood_score, W_FLOOD, 10)
                       + MulFrac(rainfall_score, W_RAIN, 10)
                       + MulFrac(case_score, W_CASES, 10)
                       + MulFrac(vulnerability_score, W_VULNERABILITY, 10)
    IN  [score |-> total_score,
         level |-> get_level_from_score(total_score),
         flood_score |-> flood_score,
         rainfall_score |-> rainfall_score,
         case_score |-> case_score,
         vulnerability_score |-> vulnerability_score,
         rainfall_mm |-> IF has_env THEN env_data_row.rainfall_7day_mm ELSE NULL,
         ndwi |-> IF has_env THEN env_data_row.ndwi ELSE NULL,
         recent_cases |-> case_data.cases,
         recent_deaths |-> case_data.deaths]

\* component scores, composite, level and echoed raw inputs for one region
ScoreValues(lga, env_data_row, case_data) ==
    LET has_env == env_data_row # None_
        flood_score ==
            IF has_env
            THEN calculate_flood_score(env_data_row.ndwi,
                                       env_data_row.flood_extent_pct)
            ELSE 0
        rainfall_score ==
            IF has_env
            THEN calculate_rainfall_score(env_data_row.rainfall_7day_mm,
                                          env_data_row.rainfall_30day_mm)
            ELSE 0
        case_score == calculate_case_score(case_data.cases, case_data.deaths)
        vulnerability_score == calculate_vulnerability_score(lga)
        total_score == MulFrac(flood_score, W_FLOOD, 10)
                       + MulFrac(rainfall_score, W_RAIN, 10)
                       + MulFrac(case_score, W_CASES, 10)
                       + MulFrac(vulnerability_score, W_VULNERABILITY, 10)
    IN  [score |-> total_score,
         level |-> get_level_from_score(total_score),
         flood_score |-> flood_score,
         rainfall_score |-> rainfall_score,
         case_score |-> case_score,
         vulnerability_score |-> vulnerability_score,
         rainfall_mm |-> IF has_env THEN env_data_row.rainfall_7day_mm ELSE NULL,
         ndwi |-> IF has_env THEN env_data_row.ndwi ELSE NULL,
         recent_cases |-> case_data.cases,
         recent_deaths |-> case_data.deaths]

\* variant: the lookup never sees the stored row
FindExisting_never(rows, lga_id, score_date) == 0

\* variant: the filter on score_date is missing
FindExisting_lga_only(rows, lga_id, score_date) ==
    LET idx == {i \in DOMAIN rows : rows[i].lga_id = lga_id}
    IN  IF idx = {} THEN 0 ELSE CHOOSE i \in idx : TRUE

\* db.query(RiskScore).filter(lga_id ==, score_date ==).first():
\* position of a matching row, 0 for None
FindExisting(rows, lga_id, score_date) ==
    LET idx == {i \in DOMAIN rows : /\ rows[i].lga_id = lga_id
                                    /\ rows[i].score_date = score_date}
    IN  IF idx = {} THEN 0 ELSE CHOOSE i \in idx : TRUE

\* variant: the constructor call leaves ndwi out
NewRow_no_ndwi(rows, lga_id, score_date, vals, now) ==
    [id |-> Len(rows) + 1, lga_id |-> lga_id, score_date |-> score_date,
     score |-> vals.score, level |-> vals.level,
     flood_score |-> vals.flood_score, rainfall_score |-> vals.rainfall_score,
     case_score |-> vals.case_score,
     vulnerability_score |-> vals.vulnerability_score,
     rainfall_mm |-> vals.rainfall_mm, ndwi |-> NULL,
     recent_cases |-> vals.recent_cases, recent_deaths |-> vals.recent_deaths,
     calculated_at |-> now, algorithm_version |-> "1.0", notes |-> NULL]

\* RiskScore(...) + db.add: id from the sequence, column defaults filled in
NewRow(rows, lga_id, score_date, vals, now) ==
    [id |-> Len(rows) + 1, lga_id |-> lga_id, score_date |-> score_date,
     score |-> vals.score, level |-> vals.level,
     flood_score |-> vals.flood_score, rainfall_score |-> vals.rainfall_score,
     case_score |-> vals.case_score,
     vulnerability_score |-> vals.vulnerability_score,
     rainfall_mm |-> vals.rainfall_mm, ndwi |-> vals.ndwi,
     recent_cases |-> vals.recent_cases, recent_deaths |-> vals.recent_deaths,
     calculated_at |-> now, algorithm_version |-> "1.0", notes |-> NULL]

\* variant: a raw input column is assigned only when the new value is not None
UpdateRow_skip_absent(cur, loaded, vals) ==
    [f \in DOMAIN cur |->
        IF /\ f \in ScoreFields
           /\ vals[f] # loaded[f]
           /\ (f \in {"rainfall_mm", "ndwi"} => vals[f] # NULL)
        THEN vals[f] ELSE cur[f]]

\* variant: the update also stamps calculated_at
UpdateRow_restamped(cur, loaded, vals) ==
    [f \in DOMAIN cur |->
        IF f \in ScoreFields /\ vals[f] # loaded[f] THEN vals[f]
        ELSE IF f = "calculated_at" THEN cur[f] + 1
        ELSE cur[f]]

\* existing.<column> = <value> for the ten columns, then the UPDATE of the
\* flush: the unit of work writes the columns whose value differs from the
\* one loaded; cur is the row in the table, loaded the row as the session read it
UpdateRow(cur, loaded, vals) ==
    [f \in DOMAIN cur |->
        IF f \in ScoreFields /\ vals[f] # loaded[f] THEN vals[f] ELSE cur[f]]

\* the dict returned at the end of calculate_for_lga
ResultDict(lga, score_date, vals) ==
    [lga_id |-> lga.id, lga_name |-> lga.name, score_date |-> score_date,
     score |-> round4(vals.score), level |-> vals.level,
     components |-> [flood |-> round4(vals.flood_score),
                     rainfall |-> round4(vals.rainfall_score),
                     cases |-> round4(vals.case_score),
                     vulnerability |-> round4(vals.vulnerability_score)],
     raw_values |-> [rainfall_7day_mm |-> vals.rainfall_mm,
                     ndwi |-> vals.ndwi,
                     recent_cases |-> vals.recent_cases,
                     recent_deaths |-> vals.recent_deaths]]

\* {"error": f"LGA {lga_id} not found"}
NotFoundDict(lga_id) == [error |-> <<"LGA", lga_id, "not found">>]

\* variant: the region is not looked up before scoring
calculate_for_lga_no_lookup(rows, active, lga_id, score_date_arg, commit_ok, now) ==
    LET score_date == IF score_date_arg = NULL THEN today ELSE score_date_arg
        found == get_lga(lga_id)
        lga == IF found = None_ THEN LgaRow(lga_id, <<NULL, NULL>>) ELSE found
        vals == ScoreValues(lga, get_latest_environmental(lga_id),
                            get_recent_cases(lga_id))
        existing == FindExisting(rows, lga_id, score_date)
    IN  [rows |-> IF existing # 0
                  THEN [rows EXCEPT ![existing] =
                            UpdateRow(@, @, vals)]
                  ELSE Append(rows, NewRow(rows, lga_id, score_date, vals, now)),
         active |-> TRUE, raised |-> "none",
         result |-> ResultDict(lga, score_date, vals)]

\* variant: the case window is the 14 days up to and including score_date
calculate_for_lga_anchored(rows, active, lga_id, score_date_arg, commit_ok, now) ==
    LET score_date == IF score_date_arg = NULL THEN today ELSE score_date_arg
        lga == get_lga(lga_id)
        idx == {i \in DOMAIN case_reports :
                   /\ case_reports[i].lga_id = lga_id
                   /\ case_reports[i].report_date >= score_date - 14
                   /\ case_reports[i].report_date <= score_date}
        case_data == [cases |-> SumField(case_reports, idx, "new_cases"),
                      deaths |-> SumField(case_reports, idx, "deaths")]
    IN  IF ~active
        THEN [rows |-> rows, active |-> FALSE,
              raised |-> "PendingRollbackError", result |-> None_]
        ELSE IF lga = None_
        THEN [rows |-> rows, active |-> TRUE, raised |-> "none",
              result |-> NotFoundDict(lga_id)]
        ELSE
        LET vals == ScoreValues(lga, get_latest_environmental(lga_id),
                                case_data)
            existing == FindExisting(rows, lga_id, score_date)
            written ==
                IF existing # 0
                THEN [rows EXCEPT ![existing] = UpdateRow(@, @, vals)]
                ELSE Append(rows, NewRow(rows, lga_id, score_date, vals, now))
        IN  IF commit_ok
            THEN [rows |-> written, active |-> TRUE, raised |-> "none",
                  result |-> ResultDict(lga, score_date, vals)]
            ELSE [rows |-> rows, active |-> FALSE,
                  raised |-> "SQLAlchemyError", result |-> None_]

\* variant: a rejected commit leaves the flushed row in the table
calculate_for_lga_dirty_failure(rows, active, lga_id, score_date_arg, commit_ok, now) ==
    LET score_date == IF score_date_arg = NULL THEN today ELSE score_date_arg
        lga == get_lga(lga_id)
    IN  IF ~active
        THEN [rows |-> rows, active |-> FALSE,
              raised |-> "PendingRollbackError", result |-> None_]
        ELSE IF lga = None_
        THEN [rows |-> rows, active |-> TRUE, raised |-> "none",
              result |-> NotFoundDict(lga_id)]
        ELSE
        LET vals == ScoreValues(lga, get_latest_environmental(lga_id),
                                get_recent_cases(lga_id))
            existing == FindExisting(rows, lga_id, score_date)
            written ==
                IF existing # 0
                THEN [rows EXCEPT ![existing] = UpdateRow(@, @, vals)]
                ELSE Append(rows, NewRow(rows, lga_id, score_date, vals, now))
        IN  IF commit_ok
            THEN [rows |-> written, active |-> TRUE, raised |-> "none",
                  result |-> ResultDict(lga, score_date, vals)]
            ELSE [rows |-> written, active |-> FALSE,
                  raised |-> "SQLAlchemyError", result |-> None_]

\* One run of calculate_for_lga on a session.
\*   rows      risk_scores as the session sees it
\*   active    FALSE once a flush of this session has failed and nobody has
\*             called rollback(): every statement then raises
\*             PendingRollbackError
\*   commit_ok whether the database accepts the flush/commit of this call
\* Yields the table afterwards, the session state and what the caller gets.
calculate_for_lga(rows, active, lga_id, score_date_arg, commit_ok, now) ==
    LET score_date == IF score_date_arg = NULL THEN today ELSE score_date_arg
        lga == get_lga(lga_id)
    IN  IF ~active
        THEN [rows |-> rows, active |-> FALSE,
              raised |-> "PendingRollbackError", result |-> None_]
        ELSE IF lga = None_
        THEN [rows |-> rows, active |-> TRUE, raised |-> "none",
              result |-> NotFoundDict(lga_id)]
        ELSE
        LET env_data_row == get_latest_environmental(lga_id)
            case_data == get_recent_cases(lga_id)
            vals == ScoreValues(lga, env_data_row, case_data)
            existing == FindExisting(rows, lga_id, score_date)
            written ==
                IF existing # 0
                THEN [rows EXCEPT ![existing] =
                          UpdateRow(@, @, vals)]
                ELSE Append(rows, NewRow(rows, lga_id, score_date, vals, now))
        IN  IF commit_ok
            THEN [rows |-> written, active |-> TRUE, raised |-> "none",
                  result |-> ResultDict(lga, score_date, vals)]
            ELSE [rows |-> rows, active |-> FALSE,
                  raised |-> "SQLAlchemyError", result |-> None_]

\* ----------------------------------------------------------- calculate_all
\* The loop of calculate_all over the rows of db.query(LGA).all(), taken in
\* the order the database returned them.  fail_at is the position of the
\* region whose commit the database rejects (0: none).
\* An exception caught by the handler is reported as an error entry, built
\* from lga.id and lga.name.  A failed flush has rolled the session back and
\* expired every loaded object, so reading lga.id needs a SELECT, which the
\* inactive session refuses: the handler itself raises and the exception
\* leaves calculate_all.
RECURSIVE calculate_all_loop(_, _, _, _, _, _, _, _)
calculate_all_loop(order, i, rows, active, score_date_arg, fail_at, acc, now) ==
    IF i > Len(order)
    THEN [rows |-> rows, raised |-> "none", results |-> acc]
    ELSE LET lga == order[i]
             o == calculate_for_lga(rows, active, lga.id, score_date_arg,
                                    i # fail_at, now)
         IN  IF o.raised = "none"
             THEN calculate_all_loop(order, i + 1, o.rows, o.active,
                                     score_date_arg, fail_at,
                                     Append(acc, o.result), now)
             ELSE IF ~o.active
             THEN [rows |-> o.rows, raised |-> "PendingRollbackError",
                   results |-> <<>>]
             ELSE calculate_all_loop(order, i + 1, o.rows, o.active,
                                     score_date_arg, fail_at,
                                     Append(acc, [lga_id |-> lga.id,
                                                  lga_name |-> lga.name,
                                                  error |-> o.raised]), now)

calculate_all(order, score_date_arg, fail_at, now) ==
    calculate_all_loop(order, 1, risk_scores, TRUE, score_date_arg, fail_at,
                       <<>>, now)

\* the orders in which a SELECT without ORDER BY may return the regions
LgaOrders ==
    {o \in [1..Cardinality(lgas) -> lgas] :
        \A i, j \in DOMAIN o : i # j => o[i] # o[j]}

\* ---------------------------------------------------------------- actions
Init ==
    /\ alerts = NoAlerts
    /\ reqs = [c \in Clients |-> IdleRequest]
    /\ responses = <<>>
    /\ import_result = None_
    /\ lgas = {LgaRow(1, <<40, 35>>), LgaRow(2, <<NULL, NULL>>)}
    /\ env_data = <<>>
    /\ case_reports = <<>>
    /\ risk_scores = <<>>
    /\ today = Today0
    /\ edits = 0
    /\ calls = 0
    /\ call = [op |-> "init"]
    /\ raised = "none"
    /\ result = None_
    /\ results = <<>>
    /\ repeat = FALSE
    /\ probe = None_
    /\ sess = [s \in Sessions |-> IdleSession]
    /\ commit_log = <<>>

Edited ==
    /\ edits < MaxEdits
    /\ edits' = edits + 1
    /\ call' = [op |-> "edit"]
    /\ raised' = "none"
    /\ result' = None_
    /\ results' = <<>>
    /\ repeat' = FALSE
    /\ UNCHANGED <<risk_scores, calls, probe, sess, commit_log>>
    /\ UNCHANGED <<alerts, reqs, responses, import_result>>

\* administrative-boundary management changes a region's coverage figures
UpdateLga(id, cov) ==
    /\ \E l \in lgas : l.id = id
    /\ lgas' = {IF l.id = id THEN LgaRow(id, cov) ELSE l : l \in lgas}
    /\ Edited
    /\ UNCHANGED <<env_data, case_reports, today>>

\* a satellite / weather fetch or an upload stores an observation
AddEnvironmentalData(lga_id, e) ==
    /\ \E l \in lgas : l.id = lga_id
    /\ env_data' = Append(env_data, EnvRow(lga_id, e))
    /\ Edited
    /\ UNCHANGED <<lgas, case_reports, today>>

\* an upload stores a case report
AddCaseReport(lga_id, c) ==
    /\ \E l \in lgas : l.id = lga_id
    /\ case_reports' = Append(case_reports, CaseRow(lga_id, c))
    /\ Edited
    /\ UNCHANGED <<lgas, env_data, today>>

\* midnight passes
AdvanceDay ==
    /\ today' = today + 1
    /\ Edited
    /\ UNCHANGED <<lgas, env_data, case_reports>>

\* calculate_for_lga(lga_id, score_date) on a session of its own
CalculateForLga(lga_id, score_date_arg, commit_ok) ==
    /\ calls < MaxCalls
    /\ LET o == calculate_for_lga(risk_scores, TRUE, lga_id, score_date_arg,
                                  commit_ok, calls + 1)
       IN  /\ risk_scores' = o.rows
           /\ raised' = o.raised
           /\ result' = o.result
           /\ repeat' = /\ call.op = "calculate_for_lga"
                        /\ raised = "none"
                        /\ "score" \in DOMAIN result
                        /\ call.lga_id = lga_id
                        /\ call.score_date = (IF score_date_arg = NULL
                                              THEN today ELSE score_date_arg)
                        /\ o.raised = "none"
    /\ results' = <<>>
    /\ calls' = calls + 1
    /\ call' = [op |-> "calculate_for_lga", lga_id |-> lga_id,
                score_date |-> IF score_date_arg = NULL THEN today
                               ELSE score_date_arg]
    /\ UNCHANGED <<lgas, env_data, case_reports, today, edits, probe, sess,
                   commit_log>>
    /\ UNCHANGED <<alerts, reqs, responses, import_result>>

\* calculate_all(score_date) on a session of its own
CalculateAll(score_date_arg, order, fail_at) ==
    /\ calls < MaxCalls
    /\ LET o == calculate_all(order, score_date_arg, fail_at, calls + 1)
       IN  /\ risk_scores' = o.rows
           /\ raised' = o.raised
           /\ results' = o.results
    /\ result' = None_
    /\ repeat' = FALSE
    /\ calls' = calls + 1
    /\ call' = [op |-> "calculate_all", fail_at |-> fail_at,
                order |-> [i \in DOMAIN order |-> order[i].id],
                score_date |-> IF score_date_arg = NULL THEN today
                               ELSE score_date_arg]
    /\ UNCHANGED <<lgas, env_data, case_reports, today, edits, probe, sess,
                   commit_log>>
    /\ UNCHANGED <<alerts, reqs, responses, import_result>>

Next ==
    \/ \E u \in LgaEdits : UpdateLga(u[1], u[2])
    \/ \E u \in EnvEdits : AddEnvironmentalData(u[1], u[2])
    \/ \E u \in CaseEdits : AddCaseReport(u[1], u[2])
    \/ AdvanceDay
    \/ \E id \in CallIds, d \in ScoreDates, ok \in BOOLEAN :
          CalculateForLga(id, d, ok)
    \/ \E d \in ScoreDates, order \in LgaOrders,
          fail_at \in 0..Cardinality(lgas) : CalculateAll(d, order, fail_at)

Spec == Init /\ [][Next]_vars

\* -------------------------------------- calculate_for_lga, statement by
\* statement, in two sessions over one database
\* lines 160-205: resolve score_date, look the region up, fetch the latest
\* observation and the case sums, compute the scores
SessionBegin(s, lga_id, score_date_arg) ==
    /\ calls < MaxCalls
    /\ sess[s].pc = "idle"
    /\ LET score_date == IF score_date_arg = NULL THEN today ELSE score_date_arg
           lga == get_lga(lga_id)
       IN  sess' = [sess EXCEPT ![s] =
               IF lga = None_
               THEN [@ EXCEPT !.pc = "done", !.lga_id = lga_id,
                              !.score_date = score_date,
                              !.result = NotFoundDict(lga_id)]
               ELSE [@ EXCEPT !.pc = "scored", !.lga_id = lga_id,
                              !.score_date = score_date, !.lga = lga,
                              !.vals = ScoreValues(lga,
                                          get_latest_environmental(lga_id),
                                          get_recent_cases(lga_id))]]
    /\ calls' = calls + 1
    /\ UNCHANGED <<lgas, env_data, case_reports, risk_scores, today, edits,
                   call, raised, result, results, repeat, probe, commit_log>>
    /\ UNCHANGED <<alerts, reqs, responses, import_result>>

\* lines 208-211: SELECT the row of (lga_id, score_date); the session keeps
\* the row as loaded
SessionQueryExisting(s) ==
    /\ sess[s].pc = "scored"
    /\ LET existing == FindExisting(risk_scores, sess[s].lga_id,
                                    sess[s].score_date)
       IN  sess' = [sess EXCEPT ![s] =
               [@ EXCEPT !.pc = "queried", !.existing = existing,
                         !.loaded = IF existing = 0 THEN None_
                                    ELSE risk_scores[existing]]]
    /\ UNCHANGED <<lgas, env_data, case_reports, risk_scores, today, edits,
                   calls, call, raised, result, results, repeat, probe,
                   commit_log>>
    /\ UNCHANGED <<alerts, reqs, responses, import_result>>

\* lines 213-262: assign or add, flush and commit, build the result
SessionCommit(s, commit_ok) ==
    /\ sess[s].pc = "queried"
    /\ LET me == sess[s]
           written ==
               IF me.existing # 0
               THEN [risk_scores EXCEPT ![me.existing] =
                        UpdateRow(@, me.loaded, me.vals)]
               ELSE Append(risk_scores,
                           NewRow(risk_scores, me.lga_id, me.score_date,
                                  me.vals, calls))
       IN  IF commit_ok
           THEN /\ risk_scores' = written
                /\ commit_log' = Append(commit_log, s)
                /\ sess' = [sess EXCEPT ![s] =
                       [@ EXCEPT !.pc = "done",
                                 !.result = ResultDict(me.lga, me.score_date,
                                                       me.vals)]]
           ELSE /\ risk_scores' = risk_scores
                /\ commit_log' = commit_log
                /\ sess' = [sess EXCEPT ![s] =
                       [@ EXCEPT !.pc = "done",
                                 !.raised = "SQLAlchemyError"]]
    /\ UNCHANGED <<lgas, env_data, case_reports, today, edits, calls, call,
                   raised, result, results, repeat, probe>>
    /\ UNCHANGED <<alerts, reqs, responses, import_result>>

NextConcurrent ==
    \/ \E u \in LgaEdits : UpdateLga(u[1], u[2])
    \/ \E u \in EnvEdits : AddEnvironmentalData(u[1], u[2])
    \/ \E u \in CaseEdits : AddCaseReport(u[1], u[2])
    \/ AdvanceDay
    \/ \E s \in Sessions, id \in CallIds, d \in ScoreDates :
          SessionBegin(s, id, d)
    \/ \E s \in Sessions : SessionQueryExisting(s)
    \/ \E s \in Sessions, ok \in BOOLEAN : SessionCommit(s, ok)

SpecConcurrent == Init /\ [][NextConcurrent]_vars

\* ------------------------------------------------------------ properties
RowsFor(rows, lga_id, score_date) ==
    {i \in DOMAIN rows : /\ rows[i].lga_id = lga_id
                         /\ rows[i].score_date = score_date}

RegionExists(lga_id) == \E l \in lgas : l.id = lga_id

\* the most recent operation was a calculate_for_lga that returned a result
CalcSucceeded ==
    /\ call.op = "calculate_for_lga"
    /\ raised = "none"
    /\ "score" \in DOMAIN result

\* this step is a calculate_for_lga
CalcStep == calls' = calls + 1 /\ call'.op = "calculate_for_lga"

\* C1: with the calls executed one at a time, risk_scores never holds two
\* rows with the same (lga_id, score_date)
T_C1_OneRecordPerKey ==
    \A i, j \in DOMAIN risk_scores :
        (/\ risk_scores[i].lga_id = risk_scores[j].lga_id
         /\ risk_scores[i].score_date = risk_scores[j].score_date) => i = j

\* a call has just recomputed a key whose row an earlier call inserted,
\* after the data changed
W_C1_Recomputed ==
    /\ CalcSucceeded
    /\ edits > 0
    /\ \E i \in RowsFor(risk_scores, call.lga_id, call.score_date) :
          risk_scores[i].calculated_at < calls

\* C3: a successful calculate_for_lga(r, d) directly after a successful
\* calculate_for_lga(r, d) returns the same score, level and components,
\* leaves exactly one row for (r, d), and that row is the one the first
\* call left
T_C3_Idempotent ==
    [][ (CalcSucceeded /\ CalcStep /\ raised' = "none"
         /\ call'.lga_id = call.lga_id /\ call'.score_date = call.score_date)
        => /\ result'.score = result.score
           /\ result'.level = result.level
           /\ result'.components = result.components
           /\ Cardinality(RowsFor(risk_scores', call.lga_id, call.score_date)) = 1
           /\ \A i \in RowsFor(risk_scores', call.lga_id, call.score_date) :
                 /\ i \in RowsFor(risk_scores, call.lga_id, call.score_date)
                 /\ \A f \in ScoreFields :
                       risk_scores'[i][f] = risk_scores[i][f] ]_vars

\* the same call was made twice in a row on a region with an ndwi reading
W_C3_Repeated ==
    /\ repeat
    /\ result.raw_values.ndwi # NULL
    /\ result.score > 0

CE_C7_ReturnedIsStored ==
    CalcSucceeded =>
        \A i \in RowsFor(risk_scores, call.lga_id, call.score_date) :
            result.score = risk_scores[i].score

\* C7 amended: the returned score is the stored score rounded to 4 decimals
\* (a multiple of 1/10000 at most half a unit away from the stored score)
T_C7_ReturnedIsStoredRounded ==
    CalcSucceeded =>
        /\ RowsFor(risk_scores, call.lga_id, call.score_date) # {}
        /\ \A i \in RowsFor(risk_scores, call.lga_id, call.score_date) :
              /\ result.score % Round4Unit = 0
              /\ 2 * (result.score - risk_scores[i].score) <= Round4Unit
              /\ 2 * (risk_scores[i].score - result.score) <= Round4Unit

\* a call returned a score that rounding moved up from the stored one
W_C7_RoundedUp ==
    /\ CalcSucceeded
    /\ \E i \in RowsFor(risk_scores, call.lga_id, call.score_date) :
          result.score > risk_scores[i].score

\* C8 as stated: an unknown region id makes calculate_for_lga fail with
\* NotFoundError
CE_C8_RaisesNotFound ==
    (call.op = "calculate_for_lga" /\ ~RegionExists(call.lga_id))
        => raised = "NotFoundError"

\* C8 amended: for an unknown region id calculate_for_lga raises nothing and
\* returns a dict holding only an error message that names the id; it has no
\* score, and risk_scores is left as it was
T_C8_NotFoundReturnsError ==
    [][ (CalcStep /\ ~RegionExists(call'.lga_id))
        => /\ raised' = "none"
           /\ DOMAIN result' = {"error"}
           /\ result'.error = <<"LGA", call'.lga_id, "not found">>
           /\ risk_scores' = risk_scores ]_vars

\* a call for the unknown region 3 returned while risk_scores holds rows
W_C8_UnknownRegion ==
    /\ call.op = "calculate_for_lga"
    /\ call.lga_id = 3
    /\ "error" \in DOMAIN result
    /\ Len(risk_scores) > 0

\* C9: for a region without any environmental observation a successful
\* calculate_for_lga stores and returns flood 0, rainfall 0, no rainfall and
\* no ndwi, and the case and vulnerability scores of the region's case
\* aggregate and coverage attributes
T_C9_NoEnvironmentalData ==
    (CalcSucceeded /\ get_latest_environmental(call.lga_id) = None_)
    => /\ RowsFor(risk_scores, call.lga_id, call.score_date) # {}
       /\ \A i \in RowsFor(risk_scores, call.lga_id, call.score_date) :
             LET row == risk_scores[i]
                 agg == get_recent_cases(call.lga_id)
             IN  /\ row.flood_score = 0
                 /\ row.rainfall_score = 0
                 /\ row.rainfall_mm = NULL
                 /\ row.ndwi = NULL
                 /\ row.case_score = calculate_case_score(agg.cases, agg.deaths)
                 /\ row.vulnerability_score =
                        calculate_vulnerability_score(get_lga(call.lga_id))
                 /\ row.recent_cases = agg.cases
       /\ result.components.flood = 0
       /\ result.components.rainfall = 0
       /\ result.raw_values.rainfall_7day_mm = NULL
       /\ result.raw_values.ndwi = NULL

\* a region with recent cases but no observation has been scored
W_C9_CasesButNoObservation ==
    /\ CalcSucceeded
    /\ get_latest_environmental(call.lga_id) = None_
    /\ result.raw_values.recent_cases > 0
    /\ result.components.cases > 0
    /\ result.components.vulnerability > 0

\* C10: a successful calculate_for_lga(r, d) changes or adds at most the row
\* keyed (r, d): every other row stays as it was, no row disappears or moves
\* to another key, and lgas, environmental_data and case_reports are untouched
T_C10_Frame ==
    [][ (CalcStep /\ raised' = "none" /\ "score" \in DOMAIN result')
        => /\ Len(risk_scores') >= Len(risk_scores)
           /\ Len(risk_scores') <= Len(risk_scores) + 1
           /\ \A i \in DOMAIN risk_scores :
                 /\ risk_scores'[i].id = risk_scores[i].id
                 /\ risk_scores'[i].lga_id = risk_scores[i].lga_id
                 /\ risk_scores'[i].score_date = risk_scores[i].score_date
                 /\ (\/ risk_scores[i].lga_id # call'.lga_id
                     \/ risk_scores[i].score_date # call'.score_date)
                    => risk_scores'[i] = risk_scores[i]
           /\ \A i \in DOMAIN risk_scores' \ DOMAIN risk_scores :
                 /\ risk_scores'[i].lga_id = call'.lga_id
                 /\ risk_scores'[i].score_date = call'.score_date
           /\ lgas' = lgas
           /\ env_data' = env_data
           /\ case_reports' = case_reports ]_vars

\* a call has updated one row in place while rows of another region and of
\* another date are stored
W_C10_UpdatedAmongOthers ==
    /\ CalcSucceeded
    /\ \E i \in RowsFor(risk_scores, call.lga_id, call.score_date) :
          risk_scores[i].calculated_at < calls
    /\ \E j \in DOMAIN risk_scores : risk_scores[j].lga_id # call.lga_id

\* C4 as stated: when the commit of one region fails inside calculate_all,
\* the call still returns one entry per region, the failing region's entry
\* is an error entry, and every other region has a valid result and a
\* stored row
CE_C4_FailureIsolated ==
    (call.op = "calculate_all" /\ call.fail_at # 0)
    => /\ raised = "none"
       /\ Len(results) = Cardinality(lgas)
       /\ \A i \in DOMAIN results :
             IF i = call.fail_at
             THEN "error" \in DOMAIN results[i]
             ELSE /\ "score" \in DOMAIN results[i]
                  /\ RowsFor(risk_scores, results[i].lga_id,
                             call.score_date) # {}

\* ---------------------------------------------- get_level_from_score alone
\* scores from -0.05 to 1.05 in hundredths, and the neighbours of 0.3 and 0.6
ScoreSamples ==
    {(k * Scale) \div 100 : k \in -5..105}
    \cup {(3 * Scale) \div 10 + d : d \in {-1, 1}}
    \cup {(6 * Scale) \div 10 + d : d \in {-1, 1}}

InitLevel ==
    /\ alerts = NoAlerts
    /\ reqs = [c \in Clients |-> IdleRequest]
    /\ responses = <<>>
    /\ import_result = None_
    /\ lgas = {}
    /\ env_data = <<>>
    /\ case_reports = <<>>
    /\ risk_scores = <<>>
    /\ today = Today0
    /\ edits = 0
    /\ calls = 0
    /\ call = [op |-> "init"]
    /\ raised = "none"
    /\ result = None_
    /\ results = <<>>
    /\ repeat = FALSE
    /\ sess = [s \in Sessions |-> IdleSession]
    /\ commit_log = <<>>
    /\ \E s \in ScoreSamples :
          probe = [fn |-> "get_level_from_score", arg |-> s, out |-> "unset"]

ClassifyScore ==
    /\ probe.out = "unset"
    /\ probe' = [probe EXCEPT !.out = get_level_from_score(probe.arg)]
    /\ UNCHANGED <<lgas, env_data, case_reports, risk_scores, today, edits,
                   calls, call, raised, result, results, repeat, sess,
                   commit_log>>
    /\ UNCHANGED <<alerts, reqs, responses, import_result>>

SpecLevel == InitLevel /\ [][ClassifyScore]_vars

CE_C2_LastWriterWins ==
    \A a, b \in Sessions :
        (/\ a # b
         /\ Len(commit_log) = 2
         /\ commit_log[2] = b
         /\ sess[a].lga_id = sess[b].lga_id
         /\ sess[a].score_date = sess[b].score_date)
        => /\ Cardinality(RowsFor(risk_scores, sess[b].lga_id,
                                  sess[b].score_date)) <= 1
           /\ \A i \in RowsFor(risk_scores, sess[b].lga_id, sess[b].score_date) :
                 \A f \in ScoreFields : risk_scores[i][f] = sess[b].vals[f]

\* C11 as stated: calculate_all returns a list with one entry per region,
\* the i-th entry carrying the id of the i-th region iterated, also when the
\* commit of some region fails
CE_C11_OneEntryPerRegion ==
    call.op = "calculate_all"
    => /\ raised = "none"
       /\ Len(results) = Cardinality(lgas)
       /\ Len(results) = Len(call.order)
       /\ \A i \in DOMAIN results : results[i].lga_id = call.order[i]

\* the region has the attributes, the latest observation and the case
\* sums of the worked example
ExampleInputs(lga_id) ==
    /\ RegionExists(lga_id)
    /\ get_lga(lga_id).water_coverage_pct = 40
    /\ get_lga(lga_id).sanitation_coverage_pct = 35
    /\ get_latest_environmental(lga_id) # None_
    /\ get_latest_environmental(lga_id).ndwi = 60
    /\ get_latest_environmental(lga_id).flood_extent_pct = 20
    /\ get_latest_environmental(lga_id).rainfall_7day_mm = 150
    /\ get_latest_environmental(lga_id).rainfall_30day_mm = 400
    /\ get_recent_cases(lga_id) = [cases |-> 40, deaths |-> 3]

\* C12 as stated: the worked example yields rainfall 0.765, case 1.0,
\* vulnerability 0.625, composite 0.8255 and level red
CE_C12_ExampleComposite ==
    (CalcSucceeded /\ ExampleInputs(call.lga_id))
    => /\ result.components.rainfall = 7650 * Round4Unit
       /\ result.components.cases = Scale
       /\ result.components.vulnerability = 6250 * Round4Unit
       /\ result.score = 8255 * Round4Unit
       /\ result.level = "red"

\* C12 amended: the worked example yields rainfall 0.765, case 1.0,
\* vulnerability 0.625, flood 0.7744 (151/195 before rounding), a returned
\* composite of 0.8252 and level red
T_C12_ExampleComposite8252 ==
    (CalcSucceeded /\ ExampleInputs(call.lga_id))
    => /\ result.components.rainfall = 7650 * Round4Unit
       /\ result.components.cases = Scale
       /\ result.components.vulnerability = 6250 * Round4Unit
       /\ result.components.flood = 7744 * Round4Unit
       /\ result.score = 8252 * Round4Unit
       /\ result.level = "red"
       /\ \A i \in RowsFor(risk_scores, call.lga_id, call.score_date) :
             risk_scores[i].flood_score * 195 = 151 * Scale

\* the region of the worked example has been scored
W_C12_ExampleScored ==
    /\ CalcSucceeded
    /\ ExampleInputs(call.lga_id)
    /\ result.raw_values.recent_cases = 40
    /\ result.raw_values.ndwi = 60

\* ------------------------------------- the component score functions alone
\* raw values offered to normalize, around the ends of its reference ranges
ValueSamples ==
    {NULL, -100, -51, -50, -49, -1, 0, 1, 5, 15, 29, 30, 31, 49, 50, 51, 79,
     80, 81, 199, 200, 201, 499, 500, 501, 600}
\* (min_val, max_val): the ranges the calculator uses and two empty ones
RangeSamples ==
    {<<-50, 80>>, <<0, 30>>, <<0, 200>>, <<0, 500>>, <<0, 50>>, <<5, 5>>,
     <<0, 0>>}
\* ndwi in hundredths
NdwiSamples == {NULL, -100, -50, 0, 15, 34, 60, 80, 150}
FloodExtentSamples == {NULL, -5, 0, 10, 20, 30, 45}
Rain7Samples == {NULL, -10, 0, 77, 150, 200, 250}
Rain30Samples == {NULL, 0, 250, 400, 500, 600}
CaseSamples == {0, 1, 19, 20, 21, 39, 40, 50, 60, 100}
DeathSamples == {0, 1, 2, 3, 5}
CoverageSamples == {NULL, 0, 1, 35, 40, 50, 100}

\* a call of one scoring function that has not run yet
Pending(fn, arg) == [fn |-> fn, arg |-> arg, done |-> FALSE, out |-> NULL]

ProbeInputs ==
    {Pending("normalize", <<v, r[1], r[2]>>) :
        v \in ValueSamples, r \in RangeSamples}
    \cup {Pending("calculate_flood_score", <<n, e>>) :
             n \in NdwiSamples, e \in FloodExtentSamples}
    \cup {Pending("calculate_rainfall_score", <<a, b>>) :
             a \in Rain7Samples, b \in Rain30Samples}
    \cup {Pending("calculate_case_score", <<c, d>>) :
             c \in CaseSamples, d \in DeathSamples}
    \cup {Pending("calculate_vulnerability_score", <<w, t>>) :
             w \in CoverageSamples, t \in CoverageSamples}

InitComponents ==
    /\ alerts = NoAlerts
    /\ reqs = [c \in Clients |-> IdleRequest]
    /\ responses = <<>>
    /\ import_result = None_
    /\ lgas = {}
    /\ env_data = <<>>
    /\ case_reports = <<>>
    /\ risk_scores = <<>>
    /\ today = Today0
    /\ edits = 0
    /\ calls = 0
    /\ call = [op |-> "init"]
    /\ raised = "none"
    /\ result = None_
    /\ results = <<>>
    /\ repeat = FALSE
    /\ sess = [s \in Sessions |-> IdleSession]
    /\ commit_log = <<>>
    /\ probe \in ProbeInputs

\* the pending call runs and its return value is kept
Returned(fn, value) ==
    /\ probe.fn = fn
    /\ ~probe.done
    /\ probe' = [probe EXCEPT !.done = TRUE, !.out = value]
    /\ UNCHANGED <<lgas, env_data, case_reports, risk_scores, today, edits,
                   calls, call, raised, result, results, repeat, sess,
                   commit_log>>
    /\ UNCHANGED <<alerts, reqs, responses, import_result>>

ApplyNormalize ==
    Returned("normalize", normalize(probe.arg[1], probe.arg[2], probe.arg[3]))

ApplyFloodScore ==
    Returned("calculate_flood_score",
             calculate_flood_score(probe.arg[1], probe.arg[2]))

ApplyRainfallScore ==
    Returned("calculate_rainfall_score",
             calculate_rainfall_score(probe.arg[1], probe.arg[2]))

ApplyCaseScore ==
    Returned("calculate_case_score",
             calculate_case_score(probe.arg[1], probe.arg[2]))

ApplyVulnerabilityScore ==
    Returned("calculate_vulnerability_score",
             calculate_vulnerability_score(LgaRow(1, probe.arg)))

NextComponents ==
    \/ ApplyNormalize
    \/ ApplyFloodScore
    \/ ApplyRainfallScore
    \/ ApplyCaseScore
    \/ ApplyVulnerabilityScore

SpecComponents == InitComponents /\ [][NextComponents]_vars

\* the named function has returned
Ran(fn) == probe.fn = fn /\ probe.done

\* linear map of [lo, hi] onto [0, 1], constant outside, for lo < hi
Linear(v, lo, hi) ==
    IF v <= lo THEN 0
    ELSE IF v >= hi THEN Scale
    ELSE ((v - lo) * Scale) \div (hi - lo)

\* C13 as stated: the vulnerability score is
\* 0.5*(1 - water/100) + 0.5*(1 - sanitation/100) for every coverage value
\* that is set, 0 included, and 50 stands in only for an unset attribute
CE_C13_VulnerabilityFormula ==
    Ran("calculate_vulnerability_score")
    => LET water == IF probe.arg[1] = NULL THEN 50 ELSE probe.arg[1]
           sanitation == IF probe.arg[2] = NULL THEN 50 ELSE probe.arg[2]
       IN  probe.out * 200 = (200 - water - sanitation) * Scale

\* positions of the region's case reports dated within the 14 days up to
\* and including today
InWindow(lga_id) ==
    {i \in DOMAIN case_reports :
        /\ case_reports[i].lga_id = lga_id
        /\ today - 14 <= case_reports[i].report_date
        /\ case_reports[i].report_date <= today}

\* C14 as stated: the case and death sums a successful calculate_for_lga
\* uses are the sums over the region's reports dated in the 14-day window
\* ending today; reports dated after today, older reports and reports of
\* other regions add nothing, and without a report in the window both are 0
CE_C14_WindowEndsToday ==
    CalcSucceeded
    => /\ result.raw_values.recent_cases =
              SumField(case_reports, InWindow(call.lga_id), "new_cases")
       /\ result.raw_values.recent_deaths =
              SumField(case_reports, InWindow(call.lga_id), "deaths")
       /\ \A i \in RowsFor(risk_scores, call.lga_id, call.score_date) :
             /\ risk_scores[i].recent_cases =
                    SumField(case_reports, InWindow(call.lga_id), "new_cases")
             /\ risk_scores[i].recent_deaths =
                    SumField(case_reports, InWindow(call.lga_id), "deaths")

\* a score_date argument after the current date (the calls made use the
\* current date and an earlier one)
OtherDates == {Today0 + 9}

\* C15: a successful calculate_for_lga returns the same score, level,
\* component scores and raw inputs, and writes the same score columns, as
\* the same call with any other score_date would on the same data and day;
\* only the key of the stored row follows score_date
T_C15_ScoreDateIndependent ==
    [][ (CalcStep /\ raised' = "none" /\ "score" \in DOMAIN result')
        => \A d \in OtherDates :
              LET o == calculate_for_lga(risk_scores, TRUE, call'.lga_id, d,
                                         TRUE, calls')
                  key == IF d = NULL THEN today ELSE d
              IN  /\ o.result.score_date = key
                  /\ o.result.score = result'.score
                  /\ o.result.level = result'.level
                  /\ o.result.components = result'.components
                  /\ o.result.raw_values = result'.raw_values
                  /\ RowsFor(o.rows, call'.lga_id, key) # {}
                  /\ \A i \in RowsFor(o.rows, call'.lga_id, key),
                        j \in RowsFor(risk_scores', call'.lga_id,
                                      call'.score_date) :
                        \A f \in ScoreFields :
                           o.rows[i][f] = risk_scores'[j][f] ]_vars

\* a region with cases reported today has been scored for today and for
\* yesterday: two rows that differ in score_date and agree in every score
W_C15_TwoDatesSameScores ==
    /\ CalcSucceeded
    /\ result.raw_values.recent_cases > 0
    /\ \E i, j \in DOMAIN risk_scores :
          /\ risk_scores[i].lga_id = call.lga_id
          /\ risk_scores[j].lga_id = call.lga_id
          /\ risk_scores[i].score_date < today
          /\ risk_scores[j].score_date = today
          /\ \A f \in ScoreFields : risk_scores[i][f] = risk_scores[j][f]
    /\ \E k \in DOMAIN case_reports :
          /\ case_reports[k].lga_id = call.lga_id
          /\ case_reports[k].report_date = today

\* positions of the observations stored for a region
ObservationsOf(lga_id) ==
    {i \in DOMAIN env_data : env_data[i].lga_id = lga_id}

\* C16: when the region has observations, the flood and rainfall scores and
\* the echoed ndwi and 7-day rainfall of a successful calculate_for_lga are
\* those of one observation of that region whose observation_date is the
\* greatest stored for the region, whatever score_date is; no other
\* observation enters
T_C16_LatestObservation ==
    (CalcSucceeded /\ ObservationsOf(call.lga_id) # {})
    => \E i \in ObservationsOf(call.lga_id) :
          LET e == env_data[i]
              flood == calculate_flood_score(e.ndwi, e.flood_extent_pct)
              rain == calculate_rainfall_score(e.rainfall_7day_mm,
                                               e.rainfall_30day_mm)
          IN  /\ \A j \in ObservationsOf(call.lga_id) :
                    env_data[j].observation_date <= e.observation_date
              /\ result.components.flood = round4(flood)
              /\ result.components.rainfall = round4(rain)
              /\ result.raw_values.ndwi = e.ndwi
              /\ result.raw_values.rainfall_7day_mm = e.rainfall_7day_mm
              /\ RowsFor(risk_scores, call.lga_id, call.score_date) # {}
              /\ \A k \in RowsFor(risk_scores, call.lga_id, call.score_date) :
                    /\ risk_scores[k].flood_score = flood
                    /\ risk_scores[k].rainfall_score = rain
                    /\ risk_scores[k].ndwi = e.ndwi
                    /\ risk_scores[k].rainfall_mm = e.rainfall_7day_mm

\* a region with an older and a newer observation, which would score
\* differently, has been scored; the newer one is not dated at score_date
W_C16_OlderObservationIgnored ==
    /\ CalcSucceeded
    /\ \E i, j \in ObservationsOf(call.lga_id) :
          /\ env_data[i].observation_date < env_data[j].observation_date
          /\ env_data[j].observation_date # call.score_date
          /\ calculate_flood_score(env_data[i].ndwi,
                                   env_data[i].flood_extent_pct)
             # calculate_flood_score(env_data[j].ndwi,
                                     env_data[j].flood_extent_pct)
          /\ \A k \in RowsFor(risk_scores, call.lga_id, call.score_date) :
                risk_scores[k].flood_score =
                    calculate_flood_score(env_data[j].ndwi,
                                          env_data[j].flood_extent_pct)

\* C17: the flood score is 0 when ndwi and flood_extent_pct are both absent;
\* otherwise it is 0.6 * (ndwi mapped linearly from [-0.5, 0.8], clamped)
\* + 0.4 * (flood_extent_pct mapped linearly from [0, 30], clamped), an
\* absent input adding 0 with the weights unchanged, so at most 0.6 with
\* ndwi alone and at most 0.4 with flood extent alone, and never above 1
T_C17_FloodScore ==
    Ran("calculate_flood_score")
    => LET ndwi == probe.arg[1]
           flood_extent_pct == probe.arg[2]
           ndwi_term == IF ndwi = NULL THEN 0
                        ELSE (6 * Linear(ndwi, -50, 80)) \div 10
           extent_term == IF flood_extent_pct = NULL THEN 0
                          ELSE (4 * Linear(flood_extent_pct, 0, 30)) \div 10
       IN  /\ probe.out = ndwi_term + extent_term
           /\ 0 <= probe.out /\ probe.out <= Scale
           /\ (ndwi = NULL /\ flood_extent_pct = NULL) => probe.out = 0
           /\ flood_extent_pct = NULL => probe.out * 10 <= 6 * Scale
           /\ ndwi = NULL => probe.out * 10 <= 4 * Scale

\* the flood score of an ndwi above its range with no flood extent has
\* been computed: 0.6
W_C17_NdwiAloneAtMost06 ==
    /\ Ran("calculate_flood_score")
    /\ probe.arg[1] # NULL /\ probe.arg[1] > 80
    /\ probe.arg[2] = NULL
    /\ probe.out * 10 = 6 * Scale

\* C18 as stated: the rainfall score takes 0 for an absent 7-day value; it
\* is the 7-day value mapped linearly from [0, 200] when the 30-day value is
\* absent, and 0.7 times that plus 0.3 times the 30-day value mapped
\* linearly from [0, 500] whenever the 30-day value is present
CE_C18_RainfallScore ==
    Ran("calculate_rainfall_score")
    => LET r7 == IF probe.arg[1] = NULL THEN 0 ELSE probe.arg[1]
           r30 == probe.arg[2]
       IN  probe.out = IF r30 = NULL
                       THEN Linear(r7, 0, 200)
                       ELSE (7 * Linear(r7, 0, 200)) \div 10
                            + (3 * Linear(r30, 0, 500)) \div 10

\* C19: the case score is recent_cases mapped linearly from [0, 50] and
\* clamped; it is multiplied by 1.3 and capped at 1 exactly when
\* recent_cases > 0 and recent_deaths / recent_cases > 0.05, and is that
\* base value otherwise (rate of exactly 5%, no deaths, no cases)
T_C19_CaseScore ==
    Ran("calculate_case_score")
    => LET recent_cases == probe.arg[1]
           recent_deaths == probe.arg[2]
           base == Linear(recent_cases, 0, 50)
           severe == /\ recent_cases > 0
                     /\ 20 * recent_deaths > recent_cases
       IN  /\ severe => probe.out = Min2(Scale, (13 * base) \div 10)
           /\ ~severe => probe.out = base

\* the case score of 20 cases with 1 death (a rate of exactly 5%) has been
\* computed and is the base value 0.4
W_C19_ExactlyFivePercent ==
    /\ Ran("calculate_case_score")
    /\ probe.arg = <<20, 1>>
    /\ probe.out * 10 = 4 * Scale

\* C20: normalize returns a value in [0, 1]; for lo < hi it returns 0 at lo
\* and below, 1 at hi and above; it returns 0 when lo = hi and when the
\* value is absent
T_C20_Normalize ==
    Ran("normalize")
    => LET v == probe.arg[1]
           lo == probe.arg[2]
           hi == probe.arg[3]
       IN  /\ 0 <= probe.out /\ probe.out <= Scale
           /\ v = NULL => probe.out = 0
           /\ lo = hi => probe.out = 0
           /\ (v # NULL /\ lo < hi /\ v <= lo) => probe.out = 0
           /\ (v # NULL /\ lo < hi /\ v >= hi) => probe.out = Scale

\* normalize has been applied to a value above the top of its range and to
\* the top itself
W_C20_ClampedAbove ==
    /\ Ran("normalize")
    /\ probe.arg[1] # NULL
    /\ probe.arg[2] < probe.arg[3]
    /\ probe.arg[1] > probe.arg[3]
    /\ probe.out = Scale

\* C21: in every row of risk_scores the score is
\* 0.4*flood_score + 0.2*rainfall_score + 0.3*case_score
\* + 0.1*vulnerability_score of that row; the weights are constants of the
\* calculator and add up to 1.0
T_C21_WeightedSum ==
    /\ W_FLOOD + W_RAIN + W_CASES + W_VULNERABILITY = 10
    /\ \A i \in DOMAIN risk_scores :
          10 * risk_scores[i].score =
              4 * risk_scores[i].flood_score
              + 2 * risk_scores[i].rainfall_score
              + 3 * risk_scores[i].case_score
              + risk_scores[i].vulnerability_score

\* a row whose four component scores are all positive and pairwise
\* different has been written
W_C21_FourComponents ==
    /\ CalcSucceeded
    /\ \E i \in RowsFor(risk_scores, call.lga_id, call.score_date) :
          LET r == risk_scores[i]
          IN  /\ r.flood_score > 0 /\ r.rainfall_score > 0
              /\ r.case_score > 0 /\ r.vulnerability_score > 0
              /\ Cardinality({r.flood_score, r.rainfall_score, r.case_score,
                              r.vulnerability_score}) = 4

\* green below 0.3, yellow from 0.3 to below 0.6, red from 0.6
LevelOf(score) ==
    IF 10 * score < 3 * Scale THEN "green"
    ELSE IF 10 * score < 6 * Scale THEN "yellow"
    ELSE "red"

\* C22 as stated: every row of risk_scores, and every result returned by
\* calculate_for_lga, carries the level that classifies the score it
\* carries itself
CE_C22_LevelMatchesScore ==
    /\ \A i \in DOMAIN risk_scores :
          risk_scores[i].level = LevelOf(risk_scores[i].score)
    /\ CalcSucceeded => result.level = LevelOf(result.score)

\* positions of the region's case reports dated today - 14 or later
Counted(lga_id) ==
    {i \in DOMAIN case_reports :
        /\ case_reports[i].lga_id = lga_id
        /\ case_reports[i].report_date >= today - 14}

\* C23: after a successful calculate_for_lga(r, d) the row of (r, d) holds
\* the raw inputs of that calculation: rainfall_mm and ndwi of an
\* observation of r with the greatest date (both absent when r has no
\* observation), and the case and death sums; an absent value replaces
\* whatever an earlier calculation stored
T_C23_RawInputsEchoed ==
    CalcSucceeded
    => /\ RowsFor(risk_scores, call.lga_id, call.score_date) # {}
       /\ \A k \in RowsFor(risk_scores, call.lga_id, call.score_date) :
             LET row == risk_scores[k]
                 obs == ObservationsOf(call.lga_id)
             IN  /\ row.recent_cases =
                        SumField(case_reports, Counted(call.lga_id), "new_cases")
                 /\ row.recent_deaths =
                        SumField(case_reports, Counted(call.lga_id), "deaths")
                 /\ obs = {} => (row.rainfall_mm = NULL /\ row.ndwi = NULL)
                 /\ obs # {} =>
                       \E i \in obs :
                          /\ \A j \in obs : env_data[j].observation_date
                                            <= env_data[i].observation_date
                          /\ row.rainfall_mm = env_data[i].rainfall_7day_mm
                          /\ row.ndwi = env_data[i].ndwi

\* a row written by the first call has been recomputed by the second after
\* a newer observation without ndwi and rainfall followed one with both
W_C23_AbsentOverwrites ==
    /\ CalcSucceeded
    /\ calls = 2 /\ edits = 2 /\ ~repeat
    /\ Len(env_data) = 2
    /\ env_data[1].lga_id = call.lga_id /\ env_data[2].lga_id = call.lga_id
    /\ env_data[1].ndwi # NULL /\ env_data[1].rainfall_7day_mm # NULL
    /\ env_data[2].ndwi = NULL /\ env_data[2].rainfall_7day_mm = NULL
    /\ env_data[1].observation_date < env_data[2].observation_date
    /\ \E k \in RowsFor(risk_scores, call.lga_id, call.score_date) :
          /\ risk_scores[k].calculated_at = 1
          /\ risk_scores[k].ndwi = NULL
          /\ risk_scores[k].rainfall_mm = NULL

\* C27: when a successful calculate_for_lga finds a row for its key, the
\* row afterwards carries the score, level, component scores and raw inputs
\* of this calculation, and its id, lga_id, score_date, calculated_at,
\* algorithm_version and notes are those it had before
T_C27_UpdateKeepsIdentity ==
    [][ (CalcStep /\ raised' = "none" /\ "score" \in DOMAIN result')
        => \A i \in RowsFor(risk_scores, call'.lga_id, call'.score_date) :
              LET old == risk_scores[i]
                  new == risk_scores'[i]
              IN  /\ new.id = old.id
                  /\ new.lga_id = old.lga_id
                  /\ new.score_date = old.score_date
                  /\ new.calculated_at = old.calculated_at
                  /\ new.algorithm_version = old.algorithm_version
                  /\ new.notes = old.notes
                  /\ round4(new.score) = result'.score
                  /\ new.level = result'.level
                  /\ round4(new.flood_score) = result'.components.flood
                  /\ round4(new.rainfall_score) = result'.components.rainfall
                  /\ round4(new.case_score) = result'.components.cases
                  /\ round4(new.vulnerability_score)
                        = result'.components.vulnerability
                  /\ new.rainfall_mm = result'.raw_values.rainfall_7day_mm
                  /\ new.ndwi = result'.raw_values.ndwi
                  /\ new.recent_cases = result'.raw_values.recent_cases
                  /\ new.recent_deaths = result'.raw_values.recent_deaths
       ]_vars

\* the second call has recomputed the row the first call inserted, after
\* the data changed in between, while the row keeps the first call's stamp
W_C27_RecomputedKeepsStamp ==
    /\ CalcSucceeded
    /\ calls = 2 /\ ~repeat
    /\ result.raw_values.recent_cases > 0
    /\ result.raw_values.ndwi # NULL
    /\ \E k \in RowsFor(risk_scores, call.lga_id, call.score_date) :
          /\ risk_scores[k].calculated_at = 1
          /\ risk_scores[k].algorithm_version = "1.0"

CE_C28_MonotoneInCases ==
    Ran("calculate_case_score")
    => \A c2 \in CaseSamples :
          probe.arg[1] <= c2
          => probe.out <= calculate_case_score(c2, probe.arg[2])

\* cases > 0 and deaths / cases > 0.05
Severe(cases, deaths) == cases > 0 /\ 20 * deaths > cases

\* C28 amended: for a fixed number of deaths the case score never decreases
\* when the number of cases grows, provided the fatality rate is above 5%
\* for both case counts or for neither; it never decreases when the deaths
\* are zero
T_C28_MonotoneWithinRateBand ==
    Ran("calculate_case_score")
    => \A c2 \in CaseSamples :
          (/\ probe.arg[1] <= c2
           /\ Severe(probe.arg[1], probe.arg[2]) <=> Severe(c2, probe.arg[2]))
          => probe.out <= calculate_case_score(c2, probe.arg[2])

\* the score of 20 cases with 1 death has been computed; 21 cases with 1
\* death score higher, 19 cases with 1 death score higher as well
W_C28_DropAtThreshold ==
    /\ Ran("calculate_case_score")
    /\ probe.arg = <<20, 1>>
    /\ probe.out < calculate_case_score(21, 1)
    /\ probe.out < calculate_case_score(19, 1)

\* ------------------------------------------------- alert acknowledge/resolve
\* requests begun in one behaviour
MaxRequests == 3

\* ids a client may put in the URL; 3 names no alert
AlertIds == {1, 2, 3}
\* user ids a client may send with an acknowledgement
UserIds == {7, 8}

\* an alert as the seeding script creates it: active, neither acknowledged
\* nor resolved
AlertRow(id) ==
    [id |-> id, acknowledged_at |-> NULL, acknowledged_by |-> NULL,
     resolved_at |-> NULL, is_active |-> TRUE]

InitAlerts ==
    /\ alerts = <<AlertRow(1), AlertRow(2)>>
    /\ reqs = [c \in Clients |-> IdleRequest]
    /\ responses = <<>>
    /\ import_result = None_
    /\ lgas = {}
    /\ env_data = <<>>
    /\ case_reports = <<>>
    /\ risk_scores = <<>>
    /\ today = Today0
    /\ edits = 0
    /\ calls = 0
    /\ call = [op |-> "init"]
    /\ raised = "none"
    /\ result = None_
    /\ results = <<>>
    /\ repeat = FALSE
    /\ probe = None_
    /\ sess = [s \in Sessions |-> IdleSession]
    /\ commit_log = <<>>

\* datetime.utcnow() at the moment a request is answered
UtcNow == Len(responses) + 1

\* Alert.acknowledge(user_id) on the object a session holds
acknowledge(alert, user_id, now) ==
    IF alert.acknowledged_at = NULL
    THEN [alert EXCEPT !.acknowledged_at = now, !.acknowledged_by = user_id]
    ELSE alert

\* Alert.resolve() on the object a session holds
resolve(alert, now) ==
    IF alert.resolved_at = NULL
    THEN [alert EXCEPT !.resolved_at = now, !.is_active = FALSE]
    ELSE alert

\* db.commit(): the UPDATE carries the columns whose value differs from the
\* one the session loaded
FlushAlert(cur, loaded, changed) ==
    [f \in DOMAIN cur |-> IF changed[f] # loaded[f] THEN changed[f] ELSE cur[f]]

Answer(c, op, alert_id, user_id, status, row) ==
    [client |-> c, op |-> op, alert_id |-> alert_id, user_id |-> user_id,
     status |-> status, at |-> UtcNow, row |-> row]

\* acknowledge_alert / resolve_alert up to the checks: SELECT the alert,
\* 404 when there is none, 400 when it is already acknowledged / resolved
AlertRequestBegin(c, op, alert_id, user_id) ==
    /\ calls < MaxRequests
    /\ reqs[c].pc = "idle"
    /\ calls' = calls + 1
    /\ IF alert_id \notin DOMAIN alerts
       THEN /\ responses' = Append(responses,
                                   Answer(c, op, alert_id, user_id, 404, None_))
            /\ reqs' = reqs
       ELSE IF \/ op = "acknowledge" /\ alerts[alert_id].acknowledged_at # NULL
               \/ op = "resolve" /\ alerts[alert_id].resolved_at # NULL
       THEN /\ responses' = Append(responses,
                                   Answer(c, op, alert_id, user_id, 400, None_))
            /\ reqs' = reqs
       ELSE /\ responses' = responses
            /\ reqs' = [reqs EXCEPT ![c] =
                   [pc |-> "loaded", op |-> op, alert_id |-> alert_id,
                    user_id |-> user_id, loaded |-> alerts[alert_id]]]
    /\ UNCHANGED <<alerts, import_result, lgas, env_data, case_reports,
                   risk_scores, today, edits, call, raised, result, results,
                   repeat, probe, sess, commit_log>>

\* the rest of the handler: alert.acknowledge(...) or alert.resolve(),
\* db.commit(), db.refresh(alert), return alert
AlertRequestFinish(c) ==
    /\ reqs[c].pc = "loaded"
    /\ LET me == reqs[c]
           changed == IF me.op = "acknowledge"
                      THEN acknowledge(me.loaded, me.user_id, UtcNow)
                      ELSE resolve(me.loaded, UtcNow)
           stored == FlushAlert(alerts[me.alert_id], me.loaded, changed)
       IN  /\ alerts' = [alerts EXCEPT ![me.alert_id] = stored]
           /\ responses' = Append(responses,
                                  Answer(c, me.op, me.alert_id, me.user_id,
                                         200, stored))
    /\ reqs' = [reqs EXCEPT ![c] = IdleRequest]
    /\ UNCHANGED <<import_result, lgas, env_data, case_reports, risk_scores,
                   today, edits, calls, call, raised, result, results,
                   repeat, probe, sess, commit_log>>

NextAlerts ==
    \/ \E c \in Clients, id \in AlertIds, u \in UserIds :
          AlertRequestBegin(c, "acknowledge", id, u)
    \/ \E c \in Clients, id \in AlertIds :
          AlertRequestBegin(c, "resolve", id, NULL)
    \/ \E c \in Clients : AlertRequestFinish(c)

SpecAlerts == InitAlerts /\ [][NextAlerts]_vars

\* positions in the log of the requests of one kind on one alert that were
\* answered with 200
Succeeded(op, alert_id) ==
    {i \in DOMAIN responses : /\ responses[i].op = op
                              /\ responses[i].alert_id = alert_id
                              /\ responses[i].status = 200}

\* an alert has at most one successful acknowledge, and it carries the time
\* and the user of that acknowledge
AcknowledgedOnce ==
    \A a \in DOMAIN alerts :
        /\ Cardinality(Succeeded("acknowledge", a)) <= 1
        /\ \A i \in Succeeded("acknowledge", a) :
              /\ alerts[a].acknowledged_at = responses[i].at
              /\ alerts[a].acknowledged_by = responses[i].user_id

\* C25 as stated: acknowledged_at and acknowledged_by of an alert are those
\* of its first successful acknowledge, no second acknowledge succeeds or
\* changes the alert, and an acknowledge leaves is_active and resolved_at
\* alone
CE_C25_AcknowledgedOnlyOnce ==
    [][ /\ AcknowledgedOnce'
        /\ \A a \in DOMAIN alerts :
              alerts[a].acknowledged_at # NULL
              => /\ alerts'[a].acknowledged_at = alerts[a].acknowledged_at
                 /\ alerts'[a].acknowledged_by = alerts[a].acknowledged_by
        /\ \A c \in Clients :
              (reqs[c].pc = "loaded" /\ reqs[c].op = "acknowledge"
               /\ reqs'[c].pc = "idle")
              => /\ alerts'[reqs[c].alert_id].is_active
                    = alerts[reqs[c].alert_id].is_active
                 /\ alerts'[reqs[c].alert_id].resolved_at
                    = alerts[reqs[c].alert_id].resolved_at
      ]_vars

\* C26 as stated: an alert with resolved_at set is inactive, an inactive
\* alert stays inactive, no second resolve succeeds or changes the alert,
\* and a resolve leaves acknowledged_at and acknowledged_by alone
CE_C26_ResolvedOnlyOnce ==
    [][ /\ \A a \in DOMAIN alerts :
              /\ alerts'[a].resolved_at # NULL => ~alerts'[a].is_active
              /\ ~alerts[a].is_active => ~alerts'[a].is_active
              /\ alerts[a].resolved_at # NULL
                 => alerts'[a].resolved_at = alerts[a].resolved_at
              /\ Cardinality(Succeeded("resolve", a)') <= 1
        /\ \A c \in Clients :
              (reqs[c].pc = "loaded" /\ reqs[c].op = "resolve"
               /\ reqs'[c].pc = "idle")
              => /\ alerts'[reqs[c].alert_id].acknowledged_at
                    = alerts[reqs[c].alert_id].acknowledged_at
                 /\ alerts'[reqs[c].alert_id].acknowledged_by
                    = alerts[reqs[c].alert_id].acknowledged_by
      ]_vars

\* ------------------------------------------------------- import_case_data
\* import_case_data calls in one behaviour
MaxImports == 2

\* the text of a region's name, one character per element
NameText(name) == IF name = 1 THEN <<"A", "b">> ELSE <<"c", " ", "d">>

\* str.lower() on the alphabet used here
LowerChar(ch) == IF ch = "A" THEN "a" ELSE IF ch = "B" THEN "b" ELSE ch
Lower(str) == [i \in DOMAIN str |-> LowerChar(str[i])]

\* str.strip()
RECURSIVE LStrip(_)
LStrip(str) == IF str # <<>> /\ Head(str) = " " THEN LStrip(Tail(str)) ELSE str
RECURSIVE RStrip(_)
RStrip(str) ==
    IF str # <<>> /\ str[Len(str)] = " "
    THEN RStrip(SubSeq(str, 1, Len(str) - 1)) ELSE str
Strip(str) == RStrip(LStrip(str))

\* str.replace(" ", "")
NotSpace(ch) == ch # " "
RemoveSpaces(str) == SelectSeq(str, NotSpace)

\* Python "sub in str"
Contains(sub, str) ==
    \E i \in 1..(Len(str) - Len(sub) + 1) :
        SubSeq(str, i, i + Len(sub) - 1) = sub

\* cells of an uploaded table as pandas hands them over
TextCell(str) == [kind |-> "str", text |-> str]
NanCell == [kind |-> "nan"]
NoneCell == [kind |-> "none"]
IntCell(n) == [kind |-> "int", n |-> n]
InfCell == [kind |-> "inf"]
\* a date object, a "%Y-%m-%d" string, a string in no known format
DateCell(day) == [kind |-> "date", day |-> day]
IsoCell(day) == [kind |-> "iso", day |-> day]
BadDateCell == [kind |-> "text"]

FileRow(lga, day, cases, deaths) ==
    [lga |-> lga, date |-> day, cases |-> cases, deaths |-> deaths]

AllColumns == {"lga_name", "report_date", "new_cases", "deaths"}

\* uploaded tables: normalised column names and rows
ImportFiles ==
    { [columns |-> AllColumns,
       rows |-> << FileRow(TextCell(<<"a", "b">>), DateCell(20),
                           IntCell(5), IntCell(1)) >>],
      [columns |-> AllColumns,
       rows |-> << FileRow(TextCell(<<"a", "b">>), DateCell(20),
                           IntCell(7), IntCell(0)),
                   FileRow(TextCell(<<"A", "B", " ">>), IsoCell(20),
                           IntCell(3), IntCell(0)) >>],
      [columns |-> AllColumns,
       rows |-> << FileRow(TextCell(<<"z", "z">>), DateCell(20),
                           IntCell(4), IntCell(0)),
                   FileRow(TextCell(<<"c", "d">>), BadDateCell,
                           IntCell(4), IntCell(0)),
                   FileRow(TextCell(<<" ">>), DateCell(18),
                           IntCell(9), IntCell(0)) >>],
      [columns |-> {"lga_name", "new_cases", "deaths"},
       rows |-> << FileRow(TextCell(<<"a", "b">>), NoneCell,
                           IntCell(2), IntCell(0)),
                   FileRow(TextCell(<<"c", " ", "d">>), NoneCell,
                           IntCell(2), IntCell(0)) >>],
      [columns |-> {"lga", "date", "cases"},
       rows |-> << FileRow(TextCell(<<"c">>), DateCell(19),
                           InfCell, NoneCell),
                   FileRow(NoneCell, DateCell(19), IntCell(2), NoneCell),
                   FileRow(NanCell, DateCell(19), IntCell(2), NoneCell),
                   FileRow(TextCell(<<"c", " ", "d">>), DateCell(19),
                           NanCell, NoneCell) >>],
      [columns |-> AllColumns,
       rows |-> << FileRow(TextCell(<<"a", "b">>), IsoCell(20),
                           IntCell(6), InfCell) >>] }

\* _build_lga_cache: dict of name -> id in insertion order; a key that is
\* already present keeps its place and takes the new id
CachePut(cache, key, id) ==
    IF \E i \in DOMAIN cache : cache[i].key = key
    THEN [i \in DOMAIN cache |->
             IF cache[i].key = key THEN [key |-> key, id |-> id] ELSE cache[i]]
    ELSE Append(cache, [key |-> key, id |-> id])

RECURSIVE build_lga_cache(_, _, _)
build_lga_cache(order, i, cache) ==
    IF i > Len(order) THEN cache
    ELSE LET name == Lower(NameText(order[i].name))
         IN  build_lga_cache(order, i + 1,
                 CachePut(CachePut(cache, name, order[i].id),
                          RemoveSpaces(name), order[i].id))

\* str(value)
Str(cell) == IF cell.kind = "nan" THEN <<"n", "a", "n">> ELSE cell.text

\* _find_lga_id: exact key, key without spaces, then the first cache entry
\* that contains the name or is contained in it; NULL for None
find_lga_id(cache, cell) ==
    IF cell.kind = "none" \/ (cell.kind = "str" /\ cell.text = <<>>)
    THEN NULL
    ELSE LET name_lower == Strip(Lower(Str(cell)))
             name_no_spaces == RemoveSpaces(name_lower)
             direct == {i \in DOMAIN cache : cache[i].key = name_lower}
             spaceless == {i \in DOMAIN cache : cache[i].key = name_no_spaces}
             partial == {i \in DOMAIN cache :
                            \/ Contains(name_lower, cache[i].key)
                            \/ Contains(cache[i].key, name_lower)}
         IN  IF direct # {} THEN cache[CHOOSE i \in direct : TRUE].id
             ELSE IF spaceless # {}
             THEN cache[CHOOSE i \in spaceless : TRUE].id
             ELSE IF partial # {}
             THEN cache[CHOOSE i \in partial : \A j \in partial : i <= j].id
             ELSE NULL

\* _parse_date: a date for date objects and strings in a known format
parse_date(cell) == IF cell.kind \in {"date", "iso"} THEN cell.day ELSE NULL

\* _safe_int: int(float(value)), the default 0 for None, NaN and text;
\* int(float("inf")) raises OverflowError, which _safe_int does not catch
SafeIntRaises(cell) == cell.kind = "inf"
safe_int(cell) == IF cell.kind = "int" THEN cell.n ELSE 0

\* the candidate column names, in the order they are tried
LgaColumns == {"lga_name", "lga", "local_government", "local_govt"}
DateColumns == {"report_date", "date", "week_ending", "epi_week_end"}
CasesColumns == {"new_cases", "cases", "total_cases", "cholera_cases"}

\* row.get("deaths", 0)
DeathsCell(file, i) ==
    IF "deaths" \in file.columns THEN file.rows[i].deaths ELSE IntCell(0)

\* db.query(CaseReport).filter(lga_id, report_date).first(): the session
\* does not autoflush, so only rows already in the table are found
ExistingReport(table, lga_id, report_date) ==
    LET idx == {j \in DOMAIN table : /\ table[j].lga_id = lga_id
                                     /\ table[j].report_date = report_date}
    IN  IF idx = {} THEN 0 ELSE CHOOSE j \in idx : \A k \in idx : j <= k

ImportStart(table) ==
    [table |-> table, pending |-> <<>>, records_imported |-> 0,
     records_failed |-> 0, errors |-> <<>>, written |-> {}]

Failed(st, i, why) ==
    [st EXCEPT !.records_failed = @ + 1,
               !.errors = Append(@, [row |-> i, error |-> why])]

\* one pass of the loop over df.iterrows()
import_row(file, i, cache, st) ==
    LET row == file.rows[i]
        lga_id == find_lga_id(cache, row.lga)
        report_date == parse_date(row.date)
        existing == ExistingReport(st.table, lga_id, report_date)
        deaths == DeathsCell(file, i)
    IN  IF lga_id = NULL THEN Failed(st, i, "Unknown LGA")
        ELSE IF report_date = NULL THEN Failed(st, i, "Invalid date")
        ELSE IF SafeIntRaises(row.cases) THEN Failed(st, i, "OverflowError")
        ELSE IF existing # 0
        THEN LET assigned ==
                     [st EXCEPT !.table[existing].new_cases =
                                    safe_int(row.cases),
                                !.written = @ \cup {i}]
             IN  IF SafeIntRaises(deaths)
                 THEN Failed(assigned, i, "OverflowError")
                 ELSE [assigned EXCEPT
                          !.table[existing].deaths = safe_int(deaths),
                          !.records_imported = @ + 1]
        ELSE IF SafeIntRaises(deaths) THEN Failed(st, i, "OverflowError")
        ELSE [st EXCEPT
                 !.pending = Append(@, CaseRow(lga_id,
                                 <<report_date, safe_int(row.cases),
                                   safe_int(deaths)>>)),
                 !.written = @ \cup {i},
                 !.records_imported = @ + 1]

RECURSIVE import_rows(_, _, _, _)
import_rows(file, i, cache, st) ==
    IF i > Len(file.rows) THEN st
    ELSE import_rows(file, i + 1, cache, import_row(file, i, cache, st))

\* import_case_data: column detection, the loop, one commit at the end
import_case_data(table, file, order) ==
    IF \/ file.columns \cap LgaColumns = {}
       \/ file.columns \cap DateColumns = {}
       \/ file.columns \cap CasesColumns = {}
    THEN [ImportStart(table) EXCEPT
             !.records_failed = Len(file.rows),
             !.errors = <<[row |-> 0, error |-> "No column found"]>>]
    ELSE import_rows(file, 1, build_lga_cache(order, 1, <<>>),
                     ImportStart(table))

\* POST /upload with a parsed table
ImportCaseData(file, order) ==
    /\ edits < MaxImports
    /\ LET o == import_case_data(case_reports, file, order)
       IN  /\ case_reports' = o.table \o o.pending
           /\ import_result' =
                  [records_imported |-> o.records_imported,
                   records_failed |-> o.records_failed,
                   errors |-> o.errors, written |-> o.written]
    /\ edits' = edits + 1
    /\ call' = [op |-> "import_case_data", file |-> file]
    /\ raised' = "none"
    /\ result' = None_
    /\ results' = <<>>
    /\ repeat' = FALSE
    /\ UNCHANGED <<lgas, env_data, risk_scores, today, calls, probe, sess,
                   commit_log, alerts, reqs, responses>>

NextImport ==
    \/ \E file \in ImportFiles, order \in LgaOrders :
          ImportCaseData(file, order)
    \/ \E id \in CallIds, d \in ScoreDates :
          CalculateForLga(id, d, TRUE)

SpecImport == Init /\ [][NextImport]_vars

\* C29: after any sequence of import_case_data calls there is at most one
\* case report per (lga_id, report_date), also when one uploaded file names
\* the same region and date in two rows, so that the 14-day aggregate counts
\* no day of a region twice
CE_C29_OneReportPerDay ==
    \A i, j \in DOMAIN case_reports :
        (/\ case_reports[i].lga_id = case_reports[j].lga_id
         /\ case_reports[i].report_date = case_reports[j].report_date)
        => i = j

\* the cell names no region: it is absent, not a number, blank once
\* stripped, or its lowered text neither contains a region's name (with or
\* without spaces) nor is contained in one
UnknownLga(cell) ==
    \/ cell.kind \in {"none", "nan"}
    \/ /\ cell.kind = "str"
       /\ LET text == Strip(Lower(cell.text))
          IN  \/ text = <<>>
              \/ \A l \in lgas :
                    LET name == Lower(NameText(l.name))
                    IN  /\ ~Contains(text, name)
                        /\ ~Contains(name, text)
                        /\ ~Contains(RemoveSpaces(name), text)
                        /\ ~Contains(text, RemoveSpaces(name))
                        /\ RemoveSpaces(text) # RemoveSpaces(name)

\* C30: import_case_data accounts for every row exactly once:
\* records_imported + records_failed is the number of rows on every return
\* path, and a row with an unknown LGA or an unparseable date is counted
\* failed and creates or changes no case report
CE_C30_EveryRowAccounted ==
    call.op = "import_case_data" =>
        /\ import_result.records_imported + import_result.records_failed
               = Len(call.file.rows)
        /\ \A i \in DOMAIN call.file.rows :
              (\/ UnknownLga(call.file.rows[i].lga)
               \/ parse_date(call.file.rows[i].date) = NULL)
              => /\ i \notin import_result.written
                 /\ \/ \E e \in DOMAIN import_result.errors :
                          import_result.errors[e].row = i
                    \/ import_result.records_imported = 0

====
